---- MODULE Spec2Model ----
(***************************************************************************)
(* A model of ts_src/index.ts of bip39: the BIP-39 mnemonic codec          *)
(* (entropyToMnemonic, mnemonicToEntropy, validateMnemonic,                *)
(* generateMnemonic), the default-wordlist registry (setDefaultWordlist,   *)
(* getDefaultWordlist) and seed derivation (mnemonicToSeedSync,            *)
(* mnemonicToSeed).                                                        *)
(*                                                                         *)
(* Representation of the JavaScript values:                                *)
(*   Buffer          Buffer(b), b a sequence of bytes 0..255               *)
(*   string          String(s), s a sequence of UTF-16 code units (all     *)
(*                   text used here lies in the Basic Multilingual Plane,  *)
(*                   so a code unit is a code point)                       *)
(*   binary string   a sequence over {0, 1}, standing for "0" and "1"; it  *)
(*                   only lives inside the codec                           *)
(*   undefined       the value Undefined                                   *)
(*   a wordlist      the name of the array object; its elements are given  *)
(*                   by WordAt                                             *)
(***************************************************************************)
EXTENDS Integers, Sequences, FiniteSets, TLC

Undefined == [type |-> "undefined"]

\* ---------------------------------------------------------------- bounds

\* The longest entropy buffer, in bytes, handed to the codec.
MaxEntropyLen == 36

\* The most mnemonicToSeed calls of one run.
MaxPromises == 2

\* ------------------------------------------------- error messages (kinds)

INVALID_MNEMONIC == "Invalid mnemonic"
INVALID_ENTROPY == "Invalid entropy"
INVALID_CHECKSUM == "Invalid mnemonic checksum"
WORDLIST_REQUIRED ==
  "A wordlist is required but a default could not be found.\n"
    \o "Please pass a 2048 word array explicitly."
UNKNOWN_WORDLIST(language) ==
  "Could not find wordlist for language \"" \o language \o "\""
NO_DEFAULT_WORDLIST == "No Default Wordlist set"

Return(v) == [kind |-> "return", value |-> v]
Throw(ctor, msg) == [kind |-> "throw", value |-> [ctor |-> ctor, message |-> msg]]

\* ------------------------------------------------------- sequence helpers

RECURSIVE ConcatRange(_, _, _)
ConcatRange(ss, lo, hi) ==
  IF lo > hi THEN <<>>
  ELSE IF lo = hi THEN ss[lo]
  ELSE LET mid == (lo + hi) \div 2
       IN ConcatRange(ss, lo, mid) \o ConcatRange(ss, mid + 1, hi)

\* Array.prototype.join('') / the concatenation of a sequence of sequences,
\* taken by halves.
Concat(ss) == ConcatRange(ss, 1, Len(ss))

Slice(s, from, to) ==
  \* String.prototype.slice(from, to) with 0-based, end-exclusive indices.
  LET lo == IF from > Len(s) THEN Len(s) ELSE from
      hi == IF to > Len(s) THEN Len(s) ELSE to
  IN IF hi <= lo THEN <<>> ELSE [i \in 1..(hi - lo) |-> s[lo + i]]

\* ------------------------------------------------------------- Bit codec

RECURSIVE lpad(_, _, _)
lpad(str, padString, length) ==
  IF Len(str) < length THEN lpad(padString \o str, padString, length) ELSE str

RECURSIVE NumberToString2(_)
\* Number.prototype.toString(2) of a non-negative integer.
NumberToString2(x) ==
  IF x < 2 THEN <<x>> ELSE Append(NumberToString2(x \div 2), x % 2)

\* parseInt yields no negative number here, so -1 is free to stand for NaN.
NaN == 0 - 1

RECURSIVE ParseBits(_, _)
ParseBits(bin, acc) ==
  IF bin = <<>> THEN acc ELSE ParseBits(Tail(bin), 2 * acc + Head(bin))

\* parseInt(bin, 2) of a string of binary digits.
binaryToByte(bin) == IF bin = <<>> THEN NaN ELSE ParseBits(bin, 0)

bytesToBinary(bytes) ==
  Concat([i \in 1..Len(bytes) |-> lpad(NumberToString2(bytes[i]), <<0>>, 8)])

\* String.prototype.match(/(.{1,k})/g) of a non-empty string: the
\* consecutive chunks of k characters, the last one possibly shorter. (Of
\* the empty string it is null.)
Match(str, k) ==
  [i \in 1..((Len(str) + k - 1) \div k) |-> Slice(str, (i - 1) * k, i * k)]

\* ---------------------------------------------------------------- hashing

RECURSIVE Mix(_, _)
Mix(bytes, acc) ==
  IF bytes = <<>> THEN acc
  ELSE Mix(Tail(bytes), (acc * 31 + Head(bytes) + 1) % 65521)

\* createHash('sha256').update(b).digest(): the hash is an external
\* primitive; the model keeps what the codec relies on, a fixed function
\* from byte sequences to 32-byte digests that depends on every byte.
Sha256(bytes) ==
  LET h == Mix(bytes, Len(bytes) + 7)
  IN [k \in 1..32 |-> ((h \div 7) + h * k + 17 * (k - 1)) % 256]

deriveChecksumBits(entropyBuffer) ==
  LET ENT == Len(entropyBuffer) * 8
      CS == ENT \div 32
      hash == Sha256(entropyBuffer)
  IN Slice(bytesToBinary(hash), 0, CS)

\* ---------------------------------------------------------------- Unicode

SPACE == 32
IDEOGRAPHIC_SPACE == 12288
REPLACEMENT_CHARACTER == 65533

\* The compatibility decomposition of one code point: the entries of the
\* Unicode tables for the code points the model's texts use. U+3000 has the
\* <wide> decomposition U+0020; U+00E9 and U+304C decompose canonically.
Decomposition(c) ==
  CASE c = IDEOGRAPHIC_SPACE -> <<SPACE>>
    [] c = 233 -> <<101, 769>>
    [] c = 12364 -> <<12363, 12441>>
    [] OTHER -> <<c>>

\* normalize(str): (str || '').normalize('NFKD'). A value that is neither
\* undefined nor a string has no normalize method.
IsString(v) == v.type = "string"
IsBuffer(v) == v.type = "buffer"
String(chars) == [type |-> "string", data |-> chars]
Buffer(bytes) == [type |-> "buffer", data |-> bytes]

NFKD(chars) == Concat([i \in 1..Len(chars) |-> Decomposition(chars[i])])

normalize(str) == IF str = Undefined \/ str.data = <<>> THEN <<>> ELSE NFKD(str.data)

\* Buffer.from(str, 'utf8') for code points below U+10000.
UTF8Encode(c) ==
  IF c < 128 THEN <<c>>
  ELSE IF c < 2048 THEN <<192 + (c \div 64), 128 + (c % 64)>>
  ELSE <<224 + (c \div 4096), 128 + ((c \div 64) % 64), 128 + (c % 64)>>

BufferFromUtf8(chars) == Concat([i \in 1..Len(chars) |-> UTF8Encode(chars[i])])

IsContinuation(bytes, i) == i <= Len(bytes) /\ bytes[i] >= 128 /\ bytes[i] < 192

\* The length of the UTF-8 sequence that starts at byte i: a well-formed
\* two- or three-byte sequence, or the single byte.
SequenceLength(bytes, i) ==
  LET b == bytes[i]
  IN IF b >= 194 /\ b < 224 /\ IsContinuation(bytes, i + 1) THEN 2
     ELSE IF b >= 224 /\ b < 240 /\ IsContinuation(bytes, i + 1)
             /\ IsContinuation(bytes, i + 2)
             /\ (b - 224) * 4096 + (bytes[i + 1] - 128) * 64 >= 2048
       THEN 3
     ELSE 1

\* Byte i belongs to a sequence begun one or two bytes before it. (The
\* first byte of a multi-byte sequence is no continuation byte, so it is
\* never itself inside an earlier sequence.)
InsideSequence(bytes, i) ==
  \/ i > 1 /\ SequenceLength(bytes, i - 1) >= 2
  \/ i > 2 /\ SequenceLength(bytes, i - 2) = 3

CodePointAt(bytes, i) ==
  LET b == bytes[i]
      n == SequenceLength(bytes, i)
  IN IF n = 2 THEN (b - 192) * 64 + (bytes[i + 1] - 128)
     ELSE IF n = 3
       THEN (b - 224) * 4096 + (bytes[i + 1] - 128) * 64 + (bytes[i + 2] - 128)
     ELSE IF b < 128 THEN b
     ELSE REPLACEMENT_CHARACTER

\* Buffer.prototype.toString('utf8'): one-, two- and three-byte sequences
\* decode to their code point; any other byte decodes to U+FFFD.
BufferToStringUtf8(bytes) ==
  Concat([i \in 1..Len(bytes) |->
            IF InsideSequence(bytes, i) THEN <<>> ELSE <<CodePointAt(bytes, i)>>])

\* The character of a hexadecimal digit, "0".."9", "a".."f", and back
\* (either case); -1 for a character that is no digit.
HexChar(d) == IF d < 10 THEN 48 + d ELSE 87 + d

HexValue(c) ==
  IF c >= 48 /\ c <= 57 THEN c - 48
  ELSE IF c >= 97 /\ c <= 102 THEN c - 87
  ELSE IF c >= 65 /\ c <= 70 THEN c - 55
  ELSE -1

\* Buffer.prototype.toString('hex')
BufferToStringHex(bytes) ==
  Concat([i \in 1..Len(bytes) |-> <<HexChar(bytes[i] \div 16), HexChar(bytes[i] % 16)>>])

RECURSIVE HexPairs(_, _)
HexPairs(chars, i) ==
  IF 2 * i > Len(chars) THEN <<>>
  ELSE LET hi == HexValue(chars[2 * i - 1])
           lo == HexValue(chars[2 * i])
       IN IF hi < 0 \/ lo < 0 THEN <<>> ELSE <<16 * hi + lo>> \o HexPairs(chars, i + 1)

\* Buffer.from(str, 'hex'): the bytes of the leading pairs of digits, up to
\* the first pair that is not two digits; a trailing single digit is dropped.
BufferFromHex(chars) == HexPairs(chars, 1)

\* -------------------------------------------------------------- wordlists

\* wordlist?: string[] -- an array of 2048 distinct words in NFKD form, a
\* word's position its 11-bit index. The arrays handed to the codec are
\* generated: a word is three symbols of the array's 16-symbol alphabet, the
\* base-16 digits of its index, except the first word of the Japanese array,
\* which is the one entropyToMnemonic compares wordlist[0] against.
WORDLIST_SIZE == 2048

JAPANESE_FIRST_WORD == <<12354, 12356, 12371, 12367, 12375, 12435>>

EnglishAlphabet == [k \in 1..16 |-> 96 + k]
FrenchAlphabet == [k \in 1..16 |-> 97 + k]
SpanishAlphabet ==
  <<97, 98, 99, 100, 101, 769, 105, 108, 109, 110, 111, 114, 115, 116, 117, 122>>
JapaneseAlphabet ==
  <<12354, 12356, 12358, 12360, 12362, 12363, 12365, 12367,
    12369, 12371, 12373, 12375, 12377, 12379, 12381, 12441>>

Alphabet(list) ==
  CASE list = "english" -> EnglishAlphabet
    [] list = "french" -> FrenchAlphabet
    [] list = "spanish" -> SpanishAlphabet
    [] list = "japanese" -> JapaneseAlphabet

ArrayNames == {"english", "japanese", "spanish", "french"}

Array(name) == [type |-> "array", name |-> name]

\* wordlist[index]
WordAt(list, index) ==
  IF index < 0 \/ index >= WORDLIST_SIZE THEN Undefined
  ELSE IF list = "japanese" /\ index = 0 THEN String(JAPANESE_FIRST_WORD)
  ELSE LET A == Alphabet(list)
       IN String(<<A[(index \div 256) + 1], A[((index \div 16) % 16) + 1],
                   A[(index % 16) + 1]>>)

\* The digit a symbol stands for in a list's words, -1 if it is none.
SymbolDigit(A, c) ==
  IF \E k \in 1..16 : A[k] = c THEN (CHOOSE k \in 1..16 : A[k] = c) - 1 ELSE -1

\* wordlist.indexOf(str): the entries are pairwise distinct, and the digits
\* of a three-symbol word name the only index whose entry can equal it, so
\* the first index holding str is that index, if its entry is str.
IndexOf(list, chars) ==
  LET guess ==
        IF list = "japanese" /\ chars = JAPANESE_FIRST_WORD THEN 0
        ELSE IF Len(chars) # 3 THEN -1
        ELSE LET d2 == SymbolDigit(Alphabet(list), chars[1])
             IN IF d2 < 0 \/ d2 > 7 THEN -1
                ELSE LET d1 == SymbolDigit(Alphabet(list), chars[2])
                     IN IF d1 < 0 THEN -1
                        ELSE LET d0 == SymbolDigit(Alphabet(list), chars[3])
                             IN IF d0 < 0 THEN -1 ELSE 256 * d2 + 16 * d1 + d0
  IN IF guess >= 0 /\ WordAt(list, guess) = String(chars) THEN guess ELSE -1

\* ----------------------------------------------------------- the codec

\* wordlist = wordlist || DEFAULT_WORDLIST
ResolveWordlist(wordlist, default) == IF wordlist = Undefined THEN default ELSE wordlist

\* mnemonicToEntropy, the byte the scan splits at:
\*   if (byte === 0x20 || byte === 0x3000)
\* with byte an element of a Buffer, 0..255.
IsSeparatorByte(byte) == byte = 32 \/ byte = 12288

RECURSIVE ScanWords(_, _, _)
\* The loop over mnemonicAsBuffer.values() and the push that follows it, on
\* the bytes lo..hi: the words pushed, the last being currentWord at the
\* end. The scan of a range is the scan of its first half followed by the
\* scan of its second half, whose first word continues currentWord.
ScanWords(mnemonicAsBuffer, lo, hi) ==
  IF lo > hi THEN << <<>> >>
  ELSE IF lo = hi
    THEN IF IsSeparatorByte(mnemonicAsBuffer[lo]) THEN << <<>>, <<>> >>
         ELSE << <<mnemonicAsBuffer[lo]>> >>
  ELSE LET mid == (lo + hi) \div 2
           left == ScanWords(mnemonicAsBuffer, lo, mid)
           right == ScanWords(mnemonicAsBuffer, mid + 1, hi)
       IN SubSeq(left, 1, Len(left) - 1)
            \o << left[Len(left)] \o right[1] >>
            \o SubSeq(right, 2, Len(right))

SplitWords(mnemonicAsBuffer) == ScanWords(mnemonicAsBuffer, 1, Len(mnemonicAsBuffer))

\* typeof mnemonic === 'string' ? Buffer.from(normalize(mnemonic), 'utf8') : mnemonic
MnemonicAsBuffer(mnemonic) ==
  IF IsString(mnemonic) THEN Buffer(BufferFromUtf8(normalize(mnemonic))) ELSE mnemonic

RECURSIVE WordIndices(_, _, _, _)
\* words.map(word => wordlist.indexOf(word.toString('utf8'))), up to and
\* including the first word that is not found.
WordIndices(words, list, i, found) ==
  IF i > Len(words) THEN found
  ELSE LET index == IndexOf(list, BufferToStringUtf8(words[i]))
       IN IF index = -1 THEN Append(found, index)
          ELSE WordIndices(words, list, i + 1, Append(found, index))

\* Math.floor(bits.length / 33) * 32
DividerIndex(bits) == (Len(bits) \div 33) * 32

\* The outcome of a call with what it did on the way: how many words it
\* looked up in the wordlist and whether it compared the checksums.
Did(outcome, lookups, compared) ==
  [outcome |-> outcome, lookups |-> lookups, compared |-> compared]

\* DecodeBits without the comparison of the checksums.
DecodeBits_NoChecksum(bits, lookups) ==
  LET dividerIndex == DividerIndex(bits)
      entropyBits == Slice(bits, 0, dividerIndex)
      chunks == Match(entropyBits, 8)
  IN IF entropyBits = <<>>
       THEN Did(Throw("TypeError", "Cannot read property 'map' of null"), lookups, FALSE)
     ELSE LET entropyBytes == [i \in 1..Len(chunks) |-> binaryToByte(chunks[i])]
          IN IF Len(entropyBytes) < 16
               THEN Did(Throw("Error", INVALID_ENTROPY), lookups, FALSE)
             ELSE IF Len(entropyBytes) > 32
               THEN Did(Throw("Error", INVALID_ENTROPY), lookups, FALSE)
             ELSE IF Len(entropyBytes) % 4 # 0
               THEN Did(Throw("Error", INVALID_ENTROPY), lookups, FALSE)
             ELSE Did(Return(String(BufferToStringHex(entropyBytes))), lookups, TRUE)

\* The bits of the indices, decoded: lines 149-172 of mnemonicToEntropy.
DecodeBits(bits, lookups) ==
  LET dividerIndex == DividerIndex(bits)
      entropyBits == Slice(bits, 0, dividerIndex)
      checksumBits == Slice(bits, dividerIndex, Len(bits))
      chunks == Match(entropyBits, 8)
  IN IF entropyBits = <<>>
       THEN Did(Throw("TypeError", "Cannot read property 'map' of null"), lookups, FALSE)
     ELSE LET entropyBytes == [i \in 1..Len(chunks) |-> binaryToByte(chunks[i])]
          IN IF Len(entropyBytes) < 16
               THEN Did(Throw("Error", INVALID_ENTROPY), lookups, FALSE)
             ELSE IF Len(entropyBytes) > 32
               THEN Did(Throw("Error", INVALID_ENTROPY), lookups, FALSE)
             ELSE IF Len(entropyBytes) % 4 # 0
               THEN Did(Throw("Error", INVALID_ENTROPY), lookups, FALSE)
             ELSE LET newChecksum == deriveChecksumBits(entropyBytes)
                  IN IF newChecksum # checksumBits
                       THEN Did(Throw("Error", INVALID_CHECKSUM), lookups, TRUE)
                     ELSE Did(Return(String(BufferToStringHex(entropyBytes))), lookups, TRUE)

\* mnemonicToEntropy without the check that the word count is a multiple of 3.
MnemonicToEntropy_NoCountCheck(mnemonic, wordlistArg, default) ==
  LET wordlist == ResolveWordlist(wordlistArg, default)
  IN IF wordlist = Undefined THEN Did(Throw("Error", WORDLIST_REQUIRED), 0, FALSE)
     ELSE LET mnemonicAsBuffer == MnemonicAsBuffer(mnemonic)
          IN IF ~IsBuffer(mnemonicAsBuffer)
               THEN Did(Throw("TypeError", "mnemonicAsBuffer.values is not a function"), 0, FALSE)
             ELSE LET words == SplitWords(mnemonicAsBuffer.data)
                      indices == WordIndices(words, wordlist.name, 1, <<>>)
                  IN IF indices[Len(indices)] = -1
                       THEN Did(Throw("Error", INVALID_MNEMONIC), Len(indices), FALSE)
                     ELSE DecodeBits(
                            Concat([i \in 1..Len(indices) |->
                                      lpad(NumberToString2(indices[i]), <<0>>, 11)]),
                            Len(indices))

\* mnemonicToEntropy, with what it did on the way.
MnemonicToEntropyTraced(mnemonic, wordlistArg, default) ==
  LET wordlist == ResolveWordlist(wordlistArg, default)
  IN IF wordlist = Undefined THEN Did(Throw("Error", WORDLIST_REQUIRED), 0, FALSE)
     ELSE LET mnemonicAsBuffer == MnemonicAsBuffer(mnemonic)
          IN IF ~IsBuffer(mnemonicAsBuffer)
               THEN Did(Throw("TypeError", "mnemonicAsBuffer.values is not a function"), 0, FALSE)
             ELSE LET words == SplitWords(mnemonicAsBuffer.data)
                  IN IF Len(words) % 3 # 0 THEN Did(Throw("Error", INVALID_MNEMONIC), 0, FALSE)
                     ELSE LET indices == WordIndices(words, wordlist.name, 1, <<>>)
                          IN IF indices[Len(indices)] = -1
                               THEN Did(Throw("Error", INVALID_MNEMONIC), Len(indices), FALSE)
                             ELSE DecodeBits(
                                    Concat([i \in 1..Len(indices) |->
                                              lpad(NumberToString2(indices[i]), <<0>>, 11)]),
                                    Len(indices))

mnemonicToEntropy(mnemonic, wordlistArg, default) ==
  MnemonicToEntropyTraced(mnemonic, wordlistArg, default).outcome

\* A separator that is a space for every wordlist.
Separator_AlwaysSpace(list) == <<SPACE>>

\* The separator entropyToMnemonic joins with.
Separator(list) ==
  IF WordAt(list, 0) = String(JAPANESE_FIRST_WORD) THEN <<IDEOGRAPHIC_SPACE>> ELSE <<SPACE>>

RECURSIVE BufferSize(_, _, _, _)
\* The first reduce: the size of the joined buffer.
BufferSize(wordsAsBuffers, separatorByteLength, i, currentBufferSize) ==
  IF i > Len(wordsAsBuffers) THEN currentBufferSize
  ELSE LET shouldAddSeparator == (i - 1) < Len(wordsAsBuffers) - 1
       IN BufferSize(wordsAsBuffers, separatorByteLength, i + 1,
                     currentBufferSize + Len(wordsAsBuffers[i])
                       + (IF shouldAddSeparator THEN separatorByteLength ELSE 0))

\* The second reduce: workingBuffer, bufferSize zero bytes, after each word
\* is set at the running offset and, but for the last word, the separator is
\* written behind it. The offset advances by exactly what was written, so
\* the writes lie end to end from offset 0; bytes that do not fit in the
\* buffer are not written.
FillBuffer(wordsAsBuffers, separator, bufferSize) ==
  LET written ==
        Concat([i \in 1..Len(wordsAsBuffers) |->
                  LET shouldAddSeparator == (i - 1) < Len(wordsAsBuffers) - 1
                  IN wordsAsBuffers[i]
                       \o (IF shouldAddSeparator THEN BufferFromUtf8(separator) ELSE <<>>)])
  IN [k \in 1..bufferSize |-> IF k <= Len(written) THEN written[k] ELSE 0]

EncodeEntropy(entropy, list) ==
  LET entropyBits == bytesToBinary(entropy)
      checksumBits == deriveChecksumBits(entropy)
      bits == entropyBits \o checksumBits
      chunks == Match(bits, 11)
      wordsAsBuffers ==
        [i \in 1..Len(chunks) |->
           BufferFromUtf8(normalize(WordAt(list, binaryToByte(chunks[i]))))]
      separator == Separator(list)
      separatorByteLength == Len(BufferFromUtf8(separator))
      bufferSize == BufferSize(wordsAsBuffers, separatorByteLength, 1, 0)
  IN FillBuffer(wordsAsBuffers, separator, bufferSize)

\* entropyToMnemonic without the check that the length is a multiple of 4.
entropyToMnemonic_NoMultipleOf4(entropyArg, wordlistArg, default) ==
  LET entropy == IF ~IsBuffer(entropyArg) THEN BufferFromHex(entropyArg.data)
                 ELSE entropyArg.data
      wordlist == ResolveWordlist(wordlistArg, default)
  IN IF wordlist = Undefined THEN Throw("Error", WORDLIST_REQUIRED)
     ELSE IF Len(entropy) < 16 THEN Throw("TypeError", INVALID_ENTROPY)
     ELSE IF Len(entropy) > 32 THEN Throw("TypeError", INVALID_ENTROPY)
     ELSE Return(Buffer(EncodeEntropy(entropy, wordlist.name)))

entropyToMnemonic(entropyArg, wordlistArg, default) ==
  LET entropy == IF ~IsBuffer(entropyArg) THEN BufferFromHex(entropyArg.data)
                 ELSE entropyArg.data
      wordlist == ResolveWordlist(wordlistArg, default)
  IN IF wordlist = Undefined THEN Throw("Error", WORDLIST_REQUIRED)
     ELSE IF Len(entropy) < 16 THEN Throw("TypeError", INVALID_ENTROPY)
     ELSE IF Len(entropy) > 32 THEN Throw("TypeError", INVALID_ENTROPY)
     ELSE IF Len(entropy) % 4 # 0 THEN Throw("TypeError", INVALID_ENTROPY)
     ELSE Return(Buffer(EncodeEntropy(entropy, wordlist.name)))

\* validateMnemonic that catches every error but the missing wordlist.
validateMnemonic_WordlistRequiredEscapes(mnemonic, wordlistArg, default) ==
  LET outcome == mnemonicToEntropy(mnemonic, wordlistArg, default)
  IN IF outcome.kind = "throw"
       THEN IF outcome.value.message = WORDLIST_REQUIRED THEN outcome ELSE Return(FALSE)
       ELSE Return(TRUE)

validateMnemonic(mnemonic, wordlistArg, default) ==
  \* try { mnemonicToEntropy(mnemonic, wordlist); } catch (e) { return false; }
  IF mnemonicToEntropy(mnemonic, wordlistArg, default).kind = "throw"
    THEN Return(FALSE)
    ELSE Return(TRUE)

Number(n) == [type |-> "number", value |-> n]

\* generateMnemonic(strength, rng, wordlist), rngBytes being what rng returns
\* when called with strength / 8.
generateMnemonic(strength, rngBytes, wordlistArg, default) ==
  LET strengthOrDefault ==
        IF strength = Undefined \/ strength.value = 0 THEN 128 ELSE strength.value
  IN IF strengthOrDefault % 32 # 0 THEN Throw("TypeError", INVALID_ENTROPY)
     ELSE entropyToMnemonic(Buffer(rngBytes), wordlistArg, default)

\* ------------------------------------------------------------ the registry

\* ./_wordlists: the languages and the array each names. English, when it is
\* present, is the default at start.
AllLanguages == <<"EN", "JA", "ES", "FR">>

ArrayOf(language) ==
  CASE language = "EN" -> "english"
    [] language = "JA" -> "japanese"
    [] language = "ES" -> "spanish"
    [] language = "FR" -> "french"

Registries == {AllLanguages, Tail(AllLanguages)}

IsRegistered(registry, language) == \E i \in 1..Len(registry) : registry[i] = language

\* wordlists[language]
Lookup(registry, language) ==
  IF IsRegistered(registry, language) THEN Array(ArrayOf(language)) ELSE Undefined

\* _default
InitialDefault(registry) == Lookup(registry, "EN")

Language(key) == [type |-> "string", key |-> key]

\* setDefaultWordlist that assigns before it tests the result.
setDefaultWordlist_AssignsFirst(language, registry, default) ==
  LET result == Lookup(registry, language)
  IN IF result # Undefined
       THEN [default |-> result, outcome |-> Return(Undefined)]
       ELSE [default |-> result, outcome |-> Throw("Error", UNKNOWN_WORDLIST(language))]

\* setDefaultWordlist(language): the new DEFAULT_WORDLIST and the outcome.
setDefaultWordlist(language, registry, default) ==
  LET result == Lookup(registry, language)
  IN IF result # Undefined
       THEN [default |-> result, outcome |-> Return(Undefined)]
       ELSE [default |-> default, outcome |-> Throw("Error", UNKNOWN_WORDLIST(language))]

\* wordlists[lang].every((word, index) => word === DEFAULT_WORDLIST[index])
EveryWordEqual(list, default) ==
  \A index \in 0..(WORDLIST_SIZE - 1) : WordAt(list, index) = WordAt(default, index)

\* getDefaultWordlist that skips "ES" where the code skips "EN".
getDefaultWordlist_SkipsES(registry, default) ==
  IF default = Undefined THEN Throw("Error", NO_DEFAULT_WORDLIST)
  ELSE LET matches ==
             SelectSeq(registry,
                       LAMBDA lang :
                         IF lang = "JA" \/ lang = "ES" THEN FALSE
                         ELSE EveryWordEqual(ArrayOf(lang), default.name))
       IN IF matches = <<>> THEN Return(Undefined) ELSE Return(Language(matches[1]))

getDefaultWordlist(registry, default) ==
  IF default = Undefined THEN Throw("Error", NO_DEFAULT_WORDLIST)
  ELSE LET matches ==
             SelectSeq(registry,
                       LAMBDA lang :
                         IF lang = "JA" \/ lang = "EN" THEN FALSE
                         ELSE EveryWordEqual(ArrayOf(lang), default.name))
       IN IF matches = <<>> THEN Return(Undefined) ELSE Return(Language(matches[1]))

\* ---------------------------------------------------------- seed derivation

salt(password) ==
  \* 'mnemonic' + (password || '')
  <<109, 110, 101, 109, 111, 110, 105, 99>> \o password

\* pbkdf2 / pbkdf2Sync: an external primitive; the model keeps a fixed
\* function of its arguments that yields keylen bytes.
Pbkdf2(password, saltMixin, iterations, keylen, digest) ==
  LET h == Mix(saltMixin, Mix(password, iterations))
  IN [k \in 1..keylen |-> (h + 31 * k) % 256]

mnemonicToSeedSync(mnemonic, password) ==
  IF ~IsString(mnemonic) /\ ~IsBuffer(mnemonic)
    THEN Throw("TypeError", "not a string or Buffer")
  ELSE LET mnemonicBuffer ==
             IF IsString(mnemonic) THEN BufferFromUtf8(normalize(mnemonic))
             ELSE mnemonic.data
           saltBuffer == BufferFromUtf8(salt(normalize(password)))
       IN Return(Buffer(Pbkdf2(mnemonicBuffer, saltBuffer, 2048, 64, "sha512")))

\* The callback of mnemonicToSeed's Promise.resolve().then: what it throws,
\* or the arguments it hands to pbkdf2Promise. A truthy value that is not a
\* string has no normalize method.
SeedJob(mnemonic, password) ==
  IF mnemonic # Undefined /\ ~IsString(mnemonic)
    THEN Throw("TypeError", "(str || '').normalize is not a function")
  ELSE Return([mnemonicBuffer |-> BufferFromUtf8(normalize(mnemonic)),
               saltBuffer |-> BufferFromUtf8(salt(normalize(password)))])

\* A callback that resolves whatever err is.
Pbkdf2Callback_IgnoresErr(err, derivedKey) == [state |-> "fulfilled", value |-> derivedKey]

\* pbkdf2Promise's callback: (err, derivedKey) => err ? reject(err) : resolve(derivedKey)
Pbkdf2Callback(err, derivedKey) ==
  IF err # Undefined THEN [state |-> "rejected", value |-> err]
  ELSE [state |-> "fulfilled", value |-> derivedKey]

\* --------------------------------------------------------------- the inputs

\* Entropy contents: byte i of a buffer is (a * i + b) % 256.
EntropyFills == {<<0, 0>>, <<37, 200>>}

Entropy(n, fill) == [i \in 1..n |-> (fill[1] * i + fill[2]) % 256]

WordlistArgs == {Undefined, Array("japanese")}

\* The 11-bit indices that spell entropy, whatever its length.
IndicesOf(entropy) ==
  LET chunks == Match(bytesToBinary(entropy) \o deriveChecksumBits(entropy), 11)
  IN [i \in 1..Len(chunks) |-> binaryToByte(chunks[i])]

\* A mnemonic text: the words of list at the indices of an entropy of 4 * k
\* bytes, as they are ("valid"), with the last index raised by one
\* ("checksum") or with the last word left out ("short"), joined by sep.
MnemonicText(list, k, fill, tweak, sep) ==
  LET spelled == IndicesOf(Entropy(4 * k, fill))
      n == Len(spelled)
      indices ==
        CASE tweak = "valid" -> spelled
          [] tweak = "checksum" ->
               [i \in 1..n |-> IF i = n THEN (spelled[i] + 1) % WORDLIST_SIZE ELSE spelled[i]]
          [] tweak = "short" -> SubSeq(spelled, 1, n - 1)
  IN Concat([i \in 1..Len(indices) |->
               WordAt(list, indices[i]).data
                 \o (IF i < Len(indices) THEN <<sep>> ELSE <<>>)])

MnemonicCases ==
  {c \in [list : {"english", "japanese", "spanish"},
          k : 1..(MaxEntropyLen \div 4),
          fill : EntropyFills,
          tweak : {"valid", "checksum", "short"},
          sep : {SPACE, IDEOGRAPHIC_SPACE},
          form : {"string", "buffer"}] :
     /\ c.tweak # "valid" => c.sep = SPACE /\ c.form = "string"
     /\ c.fill # <<0, 0>> => c.tweak = "valid" /\ c.sep = SPACE /\ c.form = "buffer"}

MnemonicOf(c) ==
  LET text == MnemonicText(c.list, c.k, c.fill, c.tweak, c.sep)
  IN IF c.form = "string" THEN String(text) ELSE Buffer(BufferFromUtf8(text))

\* The mnemonics handed to mnemonicToEntropy and validateMnemonic: the
\* cases above, the empty mnemonic, and no mnemonic at all.
Mnemonics == {MnemonicOf(c) : c \in MnemonicCases} \cup {String(<<>>), Buffer(<<>>), Undefined}

\* validateMnemonic(mnemonic: string, ...): those that are no Buffer.
TextMnemonics == {m \in Mnemonics : ~IsBuffer(m)}

EntropyArgs ==
  {Buffer(Entropy(n, fill)) : n \in 0..MaxEntropyLen, fill \in EntropyFills}
    \cup {String(BufferToStringHex(Entropy(n, fill))) :
            n \in 0..MaxEntropyLen, fill \in EntropyFills}
    \cup {String(<<48, 49, 120, 48>>), String(<<48>>)}

Strengths == {Undefined} \cup {Number(n) : n \in {0, 64, 100, 128, 160, 256, 288}}

LanguageArgs == {"EN", "JA", "ES", "FR", "XX"}

\* mnemonicToSeed's arguments: a mnemonic in NFKD form, one with U+3000 and a
\* precomposed letter, a Buffer (no string), and none; a password or none.
SeedMnemonics ==
  {String(<<97, 98, 32, 99>>), String(<<233, 12288, 99>>), Buffer(<<97, 98>>), Undefined}

SeedPasswords == {Undefined, String(<<84, 233>>)}

\* What the pbkdf2 primitive hands its callback as err: nothing, or an error.
Pbkdf2Errors == {Undefined, [ctor |-> "Error", message |-> "pbkdf2 failed"]}

\* ---------------------------------------------------------------- the state

VARIABLES
  wordlists,          \* the registry: the registered languages, in key order
  DEFAULT_WORDLIST,   \* let DEFAULT_WORDLIST: the default array, or undefined
  lastSet,            \* history: the language of the last setDefaultWordlist
                      \* call that succeeded, "" before any
  call,               \* the call that just returned, with its arguments and
                      \* outcome; Idle between calls
  promises            \* the promises mnemonicToSeed has returned

vars == <<wordlists, DEFAULT_WORDLIST, lastSet, call, promises>>

Idle == [op |-> "idle"]

Init ==
  /\ wordlists \in Registries
  /\ DEFAULT_WORDLIST = InitialDefault(wordlists)
  /\ lastSet = ""
  /\ call = Idle
  /\ promises = <<>>

\* ------------------------------------------------------ the synchronous API

EntropyToMnemonicCall ==
  /\ call = Idle
  /\ \E entropy \in EntropyArgs, wordlist \in WordlistArgs :
       call' = [op |-> "entropyToMnemonic", entropy |-> entropy, wordlist |-> wordlist,
                outcome |-> entropyToMnemonic(entropy, wordlist, DEFAULT_WORDLIST)]
  /\ UNCHANGED <<wordlists, DEFAULT_WORDLIST, lastSet, promises>>

MnemonicToEntropyCall ==
  /\ call = Idle
  /\ \E mnemonic \in Mnemonics, wordlist \in WordlistArgs :
       LET did == MnemonicToEntropyTraced(mnemonic, wordlist, DEFAULT_WORDLIST)
       IN call' = [op |-> "mnemonicToEntropy", mnemonic |-> mnemonic, wordlist |-> wordlist,
                   outcome |-> did.outcome, lookups |-> did.lookups,
                   compared |-> did.compared]
  /\ UNCHANGED <<wordlists, DEFAULT_WORDLIST, lastSet, promises>>

ValidateMnemonicCall ==
  /\ call = Idle
  /\ \E mnemonic \in TextMnemonics, wordlist \in WordlistArgs :
       call' = [op |-> "validateMnemonic", mnemonic |-> mnemonic, wordlist |-> wordlist,
                outcome |-> validateMnemonic(mnemonic, wordlist, DEFAULT_WORDLIST)]
  /\ UNCHANGED <<wordlists, DEFAULT_WORDLIST, lastSet, promises>>

GenerateMnemonicCall ==
  /\ call = Idle
  /\ \E strength \in Strengths, fill \in EntropyFills, wordlist \in WordlistArgs :
       LET size == IF strength = Undefined \/ strength.value = 0 THEN 16
                   ELSE strength.value \div 8
           rngBytes == Entropy(size, fill)
       IN call' = [op |-> "generateMnemonic", strength |-> strength, rngBytes |-> rngBytes,
                   wordlist |-> wordlist,
                   outcome |-> generateMnemonic(strength, rngBytes, wordlist, DEFAULT_WORDLIST)]
  /\ UNCHANGED <<wordlists, DEFAULT_WORDLIST, lastSet, promises>>

SetDefaultWordlistCall ==
  /\ call = Idle
  /\ \E language \in LanguageArgs :
       LET set == setDefaultWordlist(language, wordlists, DEFAULT_WORDLIST)
       IN /\ DEFAULT_WORDLIST' = set.default
          /\ lastSet' = IF set.outcome.kind = "return" THEN language ELSE lastSet
          /\ call' = [op |-> "setDefaultWordlist", language |-> language,
                      outcome |-> set.outcome]
  /\ UNCHANGED <<wordlists, promises>>

GetDefaultWordlistCall ==
  /\ call = Idle
  /\ call' = [op |-> "getDefaultWordlist",
              outcome |-> getDefaultWordlist(wordlists, DEFAULT_WORDLIST)]
  /\ UNCHANGED <<wordlists, DEFAULT_WORDLIST, lastSet, promises>>

\* The caller has taken the outcome; the next call can be made.
ReturnToCaller ==
  /\ call # Idle
  /\ call' = Idle
  /\ UNCHANGED <<wordlists, DEFAULT_WORDLIST, lastSet, promises>>

Next ==
  \/ EntropyToMnemonicCall
  \/ MnemonicToEntropyCall
  \/ ValidateMnemonicCall
  \/ GenerateMnemonicCall
  \/ SetDefaultWordlistCall
  \/ GetDefaultWordlistCall
  \/ ReturnToCaller

Spec == Init /\ [][Next]_vars

\* ------------------------------------------------------------- the seed API

MnemonicToSeedSyncCall ==
  /\ call = Idle
  /\ \E mnemonic \in SeedMnemonics, password \in SeedPasswords :
       call' = [op |-> "mnemonicToSeedSync", mnemonic |-> mnemonic, password |-> password,
                outcome |-> mnemonicToSeedSync(mnemonic, password)]
  /\ UNCHANGED <<wordlists, DEFAULT_WORDLIST, lastSet, promises>>

\* mnemonicToSeed returns Promise.resolve().then(callback): the promise is
\* pending and the callback is queued.
MnemonicToSeedCall ==
  /\ call = Idle
  /\ Len(promises) < MaxPromises
  /\ \E mnemonic \in SeedMnemonics, password \in SeedPasswords :
       /\ promises' = Append(promises,
                             [mnemonic |-> mnemonic, password |-> password,
                              phase |-> "queued", state |-> "pending",
                              value |-> Undefined, err |-> Undefined])
       /\ call' = [op |-> "mnemonicToSeed", mnemonic |-> mnemonic, password |-> password,
                   outcome |-> Return(Number(Len(promises) + 1))]
  /\ UNCHANGED <<wordlists, DEFAULT_WORDLIST, lastSet>>

\* The queued callback runs: it throws, which rejects the promise, or it
\* calls pbkdf2Promise, whose own Promise.resolve().then callback is queued.
RunSeedJob ==
  /\ call = Idle
  /\ \E i \in 1..Len(promises) :
       /\ promises[i].phase = "queued"
       /\ LET job == SeedJob(promises[i].mnemonic, promises[i].password)
          IN promises' =
               [promises EXCEPT ![i] =
                  IF job.kind = "throw"
                    THEN [@ EXCEPT !.phase = "settled", !.state = "rejected",
                                   !.value = job.value]
                    ELSE [@ EXCEPT !.phase = "pbkdf2Promise"]]
  /\ UNCHANGED <<wordlists, DEFAULT_WORDLIST, lastSet, call>>

\* pbkdf2Promise's callback runs: the executor calls pbkdf2 with callback.
StartPbkdf2 ==
  /\ call = Idle
  /\ \E i \in 1..Len(promises) :
       /\ promises[i].phase = "pbkdf2Promise"
       /\ promises' = [promises EXCEPT ![i].phase = "deriving"]
  /\ UNCHANGED <<wordlists, DEFAULT_WORDLIST, lastSet, call>>

\* pbkdf2 calls back with an error or the derived key; the inner promise is
\* settled by Pbkdf2Callback and the promise mnemonicToSeed returned follows it.
Pbkdf2Done ==
  /\ call = Idle
  /\ \E i \in 1..Len(promises), err \in Pbkdf2Errors :
       /\ promises[i].phase = "deriving"
       /\ LET job == SeedJob(promises[i].mnemonic, promises[i].password).value
              derivedKey ==
                Buffer(Pbkdf2(job.mnemonicBuffer, job.saltBuffer, 2048, 64, "sha512"))
              settled == Pbkdf2Callback(err, derivedKey)
          IN promises' = [promises EXCEPT ![i] =
                            [@ EXCEPT !.phase = "settled", !.state = settled.state,
                                      !.value = settled.value, !.err = err]]
  /\ UNCHANGED <<wordlists, DEFAULT_WORDLIST, lastSet, call>>

SeedNext ==
  \/ MnemonicToSeedSyncCall
  \/ MnemonicToSeedCall
  \/ RunSeedJob
  \/ StartPbkdf2
  \/ Pbkdf2Done
  \/ ReturnToCaller

SeedSpec == Init /\ [][SeedNext]_vars

\* ------------------------------------------------------------- the claims

ValidEntropyLengths == {16, 20, 24, 28, 32}
ValidWordCounts == {12, 15, 18, 21, 24}

\* The wordlist the observed call resolved, and the bytes of its entropy
\* argument.
Resolved == ResolveWordlist(call.wordlist, DEFAULT_WORDLIST)

EntropyBytes(entropy) ==
  IF IsBuffer(entropy) THEN entropy.data ELSE BufferFromHex(entropy.data)

IsThrow(outcome, message) == outcome.kind = "throw" /\ outcome.value.message = message

\* The separator of a wordlist as the specification gives it: U+3000 for the
\* list that begins with the Japanese first word, a space for any other.
SeparatorBytesOf(list) ==
  IF WordAt(list, 0).data = JAPANESE_FIRST_WORD THEN <<227, 128, 128>> ELSE <<32>>

\* How many words a joined mnemonic has: one more than the separators in it.
CountWords(bytes, separatorBytes) ==
  1 + Cardinality({i \in 1..Len(bytes) :
                     /\ i + Len(separatorBytes) - 1 <= Len(bytes)
                     /\ \A j \in 1..Len(separatorBytes) : bytes[i + j - 1] = separatorBytes[j]})

\* The words the scan of the observed mnemonic yields, and their indices.
ScannedWords == SplitWords(MnemonicAsBuffer(call.mnemonic).data)

AllWordsKnown(words, list) ==
  \A i \in 1..Len(words) : IndexOf(list, BufferToStringUtf8(words[i])) # -1

HasText(mnemonic) == IsString(mnemonic) \/ IsBuffer(mnemonic)

\* C1: for every entropy of 16, 20, 24, 28 or 32 bytes and every wordlist,
\* the Japanese one included, mnemonicToEntropy of what entropyToMnemonic
\* returned succeeds and returns the entropy in hexadecimal.
C1_RoundTripEntropy ==
  (/\ call.op = "entropyToMnemonic"
   /\ Resolved # Undefined
   /\ Len(EntropyBytes(call.entropy)) \in ValidEntropyLengths)
  => /\ call.outcome.kind = "return"
     /\ mnemonicToEntropy(call.outcome.value, call.wordlist, DEFAULT_WORDLIST)
          = Return(String(BufferToStringHex(EntropyBytes(call.entropy))))

\* The bytes of a mnemonic as the caller wrote it.
OriginalBytes(mnemonic) ==
  IF IsString(mnemonic) THEN BufferFromUtf8(mnemonic.data) ELSE mnemonic.data

\* C2 as stated: whenever mnemonicToEntropy(M, W) succeeds, encoding its
\* result with W gives back the bytes of M exactly.
C2_RoundTripExact ==
  (call.op = "mnemonicToEntropy" /\ call.outcome.kind = "return")
  => entropyToMnemonic(call.outcome.value, call.wordlist, DEFAULT_WORDLIST)
       = Return(Buffer(OriginalBytes(call.mnemonic)))

\* C2, amended: whenever mnemonicToEntropy(M, W) succeeds, encoding its
\* result with W gives the words M was split into, in their order and in
\* NFKD form, joined by W's own separator.
C2_RoundTripWords ==
  (call.op = "mnemonicToEntropy" /\ call.outcome.kind = "return")
  => LET words == ScannedWords
         separatorBytes == SeparatorBytesOf(Resolved.name)
     IN entropyToMnemonic(call.outcome.value, call.wordlist, DEFAULT_WORDLIST)
          = Return(Buffer(
              Concat([i \in 1..Len(words) |->
                        BufferFromUtf8(NFKD(BufferToStringUtf8(words[i])))
                          \o (IF i < Len(words) THEN separatorBytes ELSE <<>>)])))

C2_Witness ==
  /\ call.op = "mnemonicToEntropy"
  /\ call.outcome.kind = "return"
  /\ IsString(call.mnemonic)
  /\ Resolved = Array("japanese")
  /\ Len(ScannedWords) = 24

\* C3: with a wordlist resolved, entropyToMnemonic fails with "Invalid
\* entropy" exactly when the entropy is shorter than 16 bytes, longer than 32
\* or not a multiple of 4 long; otherwise it returns (8 * len + len / 4) / 11
\* words, which is 12, 15, 18, 21 or 24.
C3_LengthValidation ==
  (call.op = "entropyToMnemonic" /\ Resolved # Undefined)
  => LET len == Len(EntropyBytes(call.entropy))
     IN /\ IsThrow(call.outcome, INVALID_ENTROPY) <=> (len < 16 \/ len > 32 \/ len % 4 # 0)
        /\ len \in ValidEntropyLengths
             => /\ call.outcome.kind = "return"
                /\ CountWords(call.outcome.value.data, SeparatorBytesOf(Resolved.name))
                     = (8 * len + len \div 4) \div 11
                /\ (8 * len + len \div 4) \div 11 \in ValidWordCounts

C3_Witness ==
  /\ call.op = "entropyToMnemonic"
  /\ Resolved # Undefined
  /\ Len(EntropyBytes(call.entropy)) = 32
  /\ call.outcome.kind = "return"
  /\ CountWords(call.outcome.value.data, SeparatorBytesOf(Resolved.name)) = 24

\* C4: for a mnemonic of 12, 15, 18, 21 or 24 words, all in the resolved
\* wordlist, the 11-bit indices split at floor(len / 33) * 32 into ENT
\* entropy bits and ENT / 32 checksum bits; the call returns the entropy if
\* the checksum bits are deriveChecksumBits of the entropy bytes, and fails
\* with "Invalid mnemonic checksum" if they are not.
C4_ChecksumVerification ==
  (/\ call.op = "mnemonicToEntropy"
   /\ Resolved # Undefined
   /\ HasText(call.mnemonic)
   /\ Len(ScannedWords) \in ValidWordCounts
   /\ AllWordsKnown(ScannedWords, Resolved.name))
  => LET words == ScannedWords
         bits == Concat([i \in 1..Len(words) |->
                           lpad(NumberToString2(
                                  IndexOf(Resolved.name, BufferToStringUtf8(words[i]))),
                                <<0>>, 11)])
         ENT == 32 * (Len(words) \div 3)
         entropy == [i \in 1..(ENT \div 8) |-> binaryToByte(Slice(bits, 8 * (i - 1), 8 * i))]
         checksumBits == Slice(bits, ENT, Len(bits))
     IN /\ Len(bits) = ENT + ENT \div 32
        /\ DividerIndex(bits) = ENT
        /\ Len(entropy) \in ValidEntropyLengths
        /\ IF checksumBits = deriveChecksumBits(entropy)
             THEN call.outcome = Return(String(BufferToStringHex(entropy)))
             ELSE call.outcome = Throw("Error", INVALID_CHECKSUM)

C4_Witness ==
  /\ call.op = "mnemonicToEntropy"
  /\ Resolved # Undefined
  /\ HasText(call.mnemonic)
  /\ Len(ScannedWords) = 15
  /\ AllWordsKnown(ScannedWords, Resolved.name)
  /\ IsThrow(call.outcome, INVALID_CHECKSUM)

\* C5: validateMnemonic never throws; it returns true exactly when
\* mnemonicToEntropy of the same arguments succeeds, and false for every
\* failure, a missing wordlist included.
C5_ValidateTotal ==
  call.op = "validateMnemonic"
  => /\ call.outcome.kind = "return"
     /\ call.outcome.value \in BOOLEAN
     /\ call.outcome.value
          <=> mnemonicToEntropy(call.mnemonic, call.wordlist, DEFAULT_WORDLIST).kind = "return"

C5_Witness ==
  /\ call.op = "validateMnemonic"
  /\ call.wordlist = Undefined
  /\ DEFAULT_WORDLIST = Undefined
  /\ call.outcome = Return(FALSE)

\* The languages getDefaultWordlist scans, and whether one of them has the
\* same words as L.
Scanned(registry) == {registry[i] : i \in 1..Len(registry)} \ {"JA", "EN"}

SharesWordlist(registry, L) ==
  \E other \in Scanned(registry) \ {L} :
    \A index \in 0..(WORDLIST_SIZE - 1) :
      WordAt(ArrayOf(other), index) = WordAt(ArrayOf(L), index)

\* C6: after setDefaultWordlist(L) succeeded for a language L other than JA
\* and EN whose wordlist no other scanned language shares, and no later
\* setDefaultWordlist call succeeded, getDefaultWordlist returns L; it fails
\* with "No Default Wordlist set" only when there is no default.
C6_DefaultLifecycle ==
  call.op = "getDefaultWordlist"
  => /\ (lastSet \notin {"", "JA", "EN"} /\ ~SharesWordlist(wordlists, lastSet))
          => call.outcome = Return(Language(lastSet))
     /\ call.outcome.kind = "throw"
          => IsThrow(call.outcome, NO_DEFAULT_WORDLIST) /\ DEFAULT_WORDLIST = Undefined

C6_Witness ==
  /\ call.op = "getDefaultWordlist"
  /\ lastSet = "ES"
  /\ call.outcome = Return(Language("ES"))

\* What happens to the promises in one step: those there stay in their
\* places, and at most one is added.
IsSeedCall == call = Idle /\ call'.op = "mnemonicToSeed"

Settles(i) == promises[i].state = "pending" /\ promises'[i].state # "pending"

\* The key the primitive derives for promise i.
DerivedKey(i) ==
  Pbkdf2(BufferFromUtf8(normalize(promises[i].mnemonic)),
         BufferFromUtf8(salt(normalize(promises[i].password))), 2048, 64, "sha512")

SeedStep ==
  /\ Len(promises') >= Len(promises)
  /\ IsSeedCall
       => /\ call'.outcome.kind = "return"
          /\ Len(promises') = Len(promises) + 1
          /\ promises'[Len(promises')].state = "pending"
  /\ ~IsSeedCall => Len(promises') = Len(promises)
  /\ \A i \in 1..Len(promises) :
       /\ promises'[i].state \in {"pending", "fulfilled", "rejected"}
       /\ promises[i].state # "pending" => promises'[i] = promises[i]
       /\ Settles(i)
            => IF promises[i].phase = "deriving"
                 THEN IF promises'[i].err = Undefined
                        THEN /\ promises'[i].state = "fulfilled"
                             /\ promises'[i].value = Buffer(DerivedKey(i))
                             /\ Len(promises'[i].value.data) = 64
                        ELSE /\ promises'[i].state = "rejected"
                             /\ promises'[i].value = promises'[i].err
                 ELSE /\ promises[i].phase = "queued"
                      /\ promises[i].mnemonic # Undefined
                      /\ ~IsString(promises[i].mnemonic)
                      /\ promises'[i].state = "rejected"
                      /\ promises'[i].value.ctor = "TypeError"

\* C7: every mnemonicToSeed call returns one pending promise and throws
\* nothing; a promise settles once, when the pbkdf2 callback fires: it is
\* fulfilled with the 64 derived bytes, or rejected with the error the
\* primitive handed over, unmodified; a failure to normalize rejects it; a
\* settled promise never changes again.
C7_SettlesOnce == [][SeedStep]_vars

C7_Witness ==
  /\ Len(promises) = 2
  /\ \E i \in 1..2 : promises[i].state = "fulfilled" /\ Len(promises[i].value.data) = 64
  /\ \E i \in 1..2 :
       /\ promises[i].state = "rejected"
       /\ promises[i].err # Undefined
       /\ promises[i].value = promises[i].err

\* The bytes of a mnemonic with every U+3000 replaced by a space.
WithSpaces(bytes) ==
  LET text == BufferToStringUtf8(bytes)
  IN BufferFromUtf8([i \in 1..Len(text) |->
                       IF text[i] = IDEOGRAPHIC_SPACE THEN SPACE ELSE text[i]])

\* C8: a mnemonic given as bytes is split at every ASCII space and at every
\* U+3000, so the bytes with U+3000 between the words split into the same
\* words as the bytes with a space there.
C8_SplitsAtBothSeparators ==
  (call.op = "mnemonicToEntropy" /\ IsBuffer(call.mnemonic))
  => SplitWords(call.mnemonic.data) = SplitWords(WithSpaces(call.mnemonic.data))

\* C9: a mnemonic whose word count is not 12, 15, 18, 21 or 24 is rejected:
\* with "Invalid mnemonic", before any word is looked up, if the count is no
\* multiple of 3; with "Invalid entropy", before any checksum is compared,
\* if the count is 3, 6, 9 or at least 27 and every word is in the wordlist.
C9_WordCount ==
  (call.op = "mnemonicToEntropy" /\ Resolved # Undefined /\ HasText(call.mnemonic))
  => LET n == Len(ScannedWords)
     IN /\ n \notin ValidWordCounts => call.outcome.kind = "throw"
        /\ n % 3 # 0 => IsThrow(call.outcome, INVALID_MNEMONIC) /\ call.lookups = 0
        /\ (n % 3 = 0 /\ (n \in {3, 6, 9} \/ n >= 27)
              /\ AllWordsKnown(ScannedWords, Resolved.name))
             => /\ IsThrow(call.outcome, INVALID_ENTROPY)
                /\ call.lookups = n
                /\ ~call.compared

C9_Witness ==
  /\ call.op = "mnemonicToEntropy"
  /\ Resolved # Undefined
  /\ HasText(call.mnemonic)
  /\ Len(ScannedWords) = 27
  /\ AllWordsKnown(ScannedWords, Resolved.name)
  /\ IsThrow(call.outcome, INVALID_ENTROPY)

\* What one step does to the default wordlist.
IsSetStep == call = Idle /\ call'.op = "setDefaultWordlist"

DefaultStep ==
  /\ IsSetStep
       => IF IsRegistered(wordlists, call'.language)
            THEN /\ call'.outcome.kind = "return"
                 /\ DEFAULT_WORDLIST' = Array(ArrayOf(call'.language))
            ELSE /\ IsThrow(call'.outcome, UNKNOWN_WORDLIST(call'.language))
                 /\ DEFAULT_WORDLIST' = DEFAULT_WORDLIST
  /\ ~IsSetStep => DEFAULT_WORDLIST' = DEFAULT_WORDLIST
  /\ DEFAULT_WORDLIST # Undefined => DEFAULT_WORDLIST' # Undefined
  /\ DEFAULT_WORDLIST' = IF lastSet' = "" THEN InitialDefault(wordlists')
                         ELSE Array(ArrayOf(lastSet'))

\* C10: the default wordlist is the wordlist registered for the language of
\* the last setDefaultWordlist call that succeeded, the initial default if
\* none did; a setDefaultWordlist call with an unregistered language fails
\* with "Could not find wordlist" and leaves the default as it was; no other
\* operation changes the default, and a default, once there, is never unset.
C10_LastWriterWins == [][DefaultStep]_vars

C10_Witness ==
  /\ call.op = "setDefaultWordlist"
  /\ call.language = "XX"
  /\ IsThrow(call.outcome, UNKNOWN_WORDLIST("XX"))
  /\ lastSet = "ES"
  /\ DEFAULT_WORDLIST = Array("spanish")

====
